---- MODULE Spec2Model ----
(***************************************************************************)
(* FlowMap K-LUT mapper (the6p4c/flowmap): the boolean network, the        *)
(* topological order, the labelling pass with its max-flow engine, the     *)
(* mapping pass and the LUT evaluator, as a state machine.                 *)
(*                                                                         *)
(* An Option<T> of the source is a sequence: <<>> is None, <<v>> Some(v).  *)
(* A Vec is a sequence, a stack's top is its last element.  Nodes are the  *)
(* node indices 0 .. max_node_index.                                       *)
(***************************************************************************)
EXTENDS Integers, Sequences, FiniteSets, TLC

VARIABLES
    network,    \* BooleanNetwork<NodeValue, (u32, u32), Ni>
    k,          \* the K handed to label_network and map
    topo,       \* TopologicalOrder { s, visited }
    pc,         \* where the pipeline label_network; map; evaluate stands
    frame,      \* label_node's locals and its Flow { node, source, sink }
    mapping,    \* map's locals { done, luts, s }
    tables,     \* what evaluate's closure returned, per emitted LUT
    panic,      \* the message of the panic that stopped the run, or ""
    aiger,      \* the AIGER file main reads: header m and the records
    call,       \* the last call on the network that changed it or panicked
    added,      \* the <<from, to>> of the add_edge calls that returned, in order
    line,       \* the record line the reader hands to a parser
    record      \* what the parser returned for it: Ok(record) or Err(error)

\* What label_network, map and evaluate never touch: the front end's file, the
\* calls of a user of the network, the reader's line and its record
frontend == <<aiger, call, added, line, record>>

vars == <<network, k, topo, pc, frame, mapping, tables, panic, frontend>>

(***************************************************************************)
(* Bounds of the model.                                                    *)
(***************************************************************************)
\* The enumerated networks have the primary inputs 0 .. NumInputs-1 and the
\* gates NumInputs .. NumInputs+NumGates-1.
NumInputs == 3

NumGates == 2

(***************************************************************************)
(* Small helpers on sequences.                                             *)
(***************************************************************************)
Range(s) == {s[i] : i \in 1..Len(s)}

Contains(s, x) == \E i \in 1..Len(s) : s[i] = x

Last(s) == s[Len(s)]

Pop(s) == SubSeq(s, 1, Len(s) - 1)

RECURSIVE MaxOf(_)
MaxOf(S) ==
    LET x == CHOOSE y \in S : TRUE
    IN  IF S = {x} THEN x
        ELSE LET m == MaxOf(S \ {x}) IN IF x > m THEN x ELSE m

\* Vec::iter().position(|x| *x == v).unwrap()
Position(s, v) == CHOOSE i \in 1..Len(s) : s[i] = v /\ \A j \in 1..(i - 1) : s[j] # v

(***************************************************************************)
(* boolean_network.rs: BooleanNetwork.                                     *)
(***************************************************************************)
Nodes(net) == 0..net.max_node_index

node_count(net) == net.max_node_index + 1

\* NodeValue::default()
DefaultNodeValue ==
    [symbol |-> <<>>, label |-> <<>>, x_bar |-> <<>>, is_pi |-> FALSE, is_po |-> FALSE,
     flow |-> 0]

\* E::default() of the edge payload (u32, u32)
DefaultEdgeValue == <<0, 0>>

\* BooleanNetwork::new(max_index)
NewNetwork(max_index) ==
    [max_node_index |-> max_index,
     ancestors   |-> [n \in 0..max_index |-> <<>>],
     descendents |-> [n \in 0..max_index |-> <<>>],
     node_values |-> [n \in 0..max_index |-> DefaultNodeValue],
     edge_values |-> [n \in 0..max_index |-> <<>>]]

\* add_edge pushing from at the front of to's ancestors
add_edge_front(net, from, to) ==
    LET a == [net.ancestors EXCEPT ![to] = <<from>> \o @]
        d == [net.descendents EXCEPT ![from] = Append(@, to)]
        e == [net.edge_values EXCEPT ![to] = Append(@, DefaultEdgeValue)]
    IN  [net EXCEPT !.ancestors = a, !.descendents = d, !.edge_values = e]

\* BooleanNetwork::add_edge(From(from), To(to)), both indices in bounds
add_edge(net, from, to) ==
    LET a == [net.ancestors EXCEPT ![to] = Append(@, from)]
        d == [net.descendents EXCEPT ![from] = Append(@, to)]
        e == [net.edge_values EXCEPT ![to] = Append(@, DefaultEdgeValue)]
    IN  [net EXCEPT !.ancestors = a, !.descendents = d, !.edge_values = e]

\* add_edge over a list of <<from, to>> pairs, in order
RECURSIVE add_edges(_, _)
add_edges(net, edges) ==
    IF edges = <<>> THEN net
    ELSE add_edges(add_edge(net, Head(edges)[1], Head(edges)[2]), Tail(edges))

\* BooleanNetwork::edge_value(From(from), To(to))
edge_value(net, from, to) ==
    net.edge_values[to][Position(net.ancestors[to], from)]

\* *BooleanNetwork::edge_value_mut(From(from), To(to)) = v
set_edge_value(net, from, to, v) ==
    [net EXCEPT !.edge_values[to][Position(net.ancestors[to], from)] = v]

\* (0..node_count()).map(Ni::from_node_index).filter(|ni| ni in S).collect(),
\* from index i on
RECURSIVE NodesWhere(_, _, _)
NodesWhere(net, i, S) ==
    IF i > net.max_node_index THEN <<>>
    ELSE IF i \in S THEN <<i>> \o NodesWhere(net, i + 1, S)
         ELSE NodesWhere(net, i + 1, S)

\* The literal's polarity bit (aiger::Literal::is_inverted)
is_inverted(n) == n % 2 = 1

(***************************************************************************)
(* flowmap/label.rs: TopologicalOrder.                                     *)
(***************************************************************************)
\* TopologicalOrder::new
NewTopologicalOrder(net) ==
    [s |-> NodesWhere(net, 0, {i \in Nodes(net) : Len(net.ancestors[i]) = 0}),
     visited |-> <<>>]

\* The descendents of n that TopologicalOrder::next pushes, in order: those
\* whose ancestors are all in visited.
TopoReady(net, visited, n) ==
    SelectSeq(net.descendents[n],
              LAMBDA d : \A i \in 1..Len(net.ancestors[d]) :
                             Contains(visited, net.ancestors[d][i]))

\* TopologicalOrder::next, for a non-empty s: the iterator after the call.
\* The node returned is Last(t.s).
TopoNext(net, t) ==
    LET n == Last(t.s)
        visited == Append(t.visited, n)
    IN  [s |-> Pop(t.s) \o TopoReady(net, visited, n), visited |-> visited]

(***************************************************************************)
(* flowmap/flow.rs: Position and Flow.  A Flow is the network it borrows   *)
(* together with fl = [node, source, sink], source and sink being lists of *)
(* <<ni, flow>> pairs.                                                     *)
(***************************************************************************)
Source == <<"Source", 0>>

Sink == <<"Sink", 0>>

BeforeNode(ni) == <<"BeforeNode", ni>>

AfterNode(ni) == <<"AfterNode", ni>>

IsBefore(pos) == pos[1] = "BeforeNode"

IsAfter(pos) == pos[1] = "AfterNode"

Positions(net) ==
    {Source, Sink} \cup {BeforeNode(n) : n \in Nodes(net)}
                   \cup {AfterNode(n) : n \in Nodes(net)}

\* self.sink.iter().any(|(ni2, _)| *ni2 == ni), and the same on self.source
Listed(pairs, ni) == \E i \in 1..Len(pairs) : pairs[i][1] = ni

\* find_map over a source or sink list: the flow counter of the first entry of ni
Counter(pairs, ni) ==
    pairs[CHOOSE i \in 1..Len(pairs) :
              pairs[i][1] = ni /\ \A j \in 1..(i - 1) : pairs[j][1] # ni][2]

MapSeq(s, f(_)) == [i \in 1..Len(s) |-> f(s[i])]

\* Flow::new
NewFlow(node, source, sink) ==
    [node |-> node,
     source |-> MapSeq(source, LAMBDA ni : <<ni, 0>>),
     sink |-> MapSeq(sink, LAMBDA ni : <<ni, 0>>)]

\* Flow::descendents
FlowDescendents(net, fl, position) ==
    CASE position = Source -> MapSeq(fl.source, LAMBDA e : BeforeNode(e[1]))
      [] position = Sink -> <<>>
      [] IsBefore(position) -> <<AfterNode(position[2])>>
      [] IsAfter(position) ->
            IF Listed(fl.sink, position[2]) THEN <<Sink>>
            ELSE MapSeq(net.descendents[position[2]],
                        LAMBDA ni : IF ni = fl.node THEN Sink ELSE BeforeNode(ni))

\* Flow::ancestors
FlowAncestors(net, fl, position) ==
    CASE position = Source -> <<>>
      [] position = Sink -> MapSeq(fl.sink, LAMBDA e : AfterNode(e[1]))
      [] IsBefore(position) ->
            MapSeq(net.ancestors[position[2]], LAMBDA ni : AfterNode(ni))
      [] IsAfter(position) -> <<BeforeNode(position[2])>>

\* The sentinel capacity of the Source and Sink legs and of the "infinite" edges
InfiniteCapacity == 1000

\* flow_cap without the unit capacity of a node: the edge from a node's Before
\* to its After has the capacity of a source or sink leg
flow_cap_no_node_capacity(net, fl, from, to) ==
    CASE from = Source /\ IsBefore(to) ->
            IF Listed(fl.source, to[2])
            THEN <<Counter(fl.source, to[2]), InfiniteCapacity>> ELSE <<0, 0>>
      [] IsBefore(from) /\ IsAfter(to) /\ from[2] = to[2] ->
            <<net.node_values[from[2]].flow, InfiniteCapacity>>
      [] IsAfter(from) /\ IsBefore(to) -> edge_value(net, from[2], to[2])
      [] IsAfter(from) /\ to = Sink ->
            IF Listed(fl.sink, from[2])
            THEN <<Counter(fl.sink, from[2]), InfiniteCapacity>> ELSE <<0, 0>>
      [] OTHER -> <<0, 0>>

\* Flow::flow_cap
flow_cap(net, fl, from, to) ==
    CASE from = Source /\ IsBefore(to) ->
            IF Listed(fl.source, to[2])
            THEN <<Counter(fl.source, to[2]), InfiniteCapacity>> ELSE <<0, 0>>
      [] IsBefore(from) /\ IsAfter(to) /\ from[2] = to[2] ->
            <<net.node_values[from[2]].flow, 1 - net.node_values[from[2]].flow>>
      [] IsAfter(from) /\ IsBefore(to) -> edge_value(net, from[2], to[2])
      [] IsAfter(from) /\ to = Sink ->
            IF Listed(fl.sink, from[2])
            THEN <<Counter(fl.sink, from[2]), InfiniteCapacity>> ELSE <<0, 0>>
      [] OTHER -> <<0, 0>>

\* for (ni2, flow) in &mut list { if *ni2 == ni { *flow += d; return; } }
BumpFirst(pairs, ni, d) ==
    IF Listed(pairs, ni)
    THEN LET i == CHOOSE j \in 1..Len(pairs) :
                      pairs[j][1] = ni /\ \A h \in 1..(j - 1) : pairs[h][1] # ni
         IN  [pairs EXCEPT ![i] = <<ni, @[2] + d>>]
    ELSE pairs

\* for (ni2, flow) in &mut list { if *ni2 == ni { *flow += d; } }
BumpAll(pairs, ni, d) ==
    [i \in 1..Len(pairs) |->
        IF pairs[i][1] = ni THEN <<ni, pairs[i][2] + d>> ELSE pairs[i]]

\* Flow::augment: the network and the Flow after the call
augment(net, fl, from, to, f) ==
    CASE from = Source /\ IsBefore(to) ->
            [net |-> net, fl |-> [fl EXCEPT !.source = BumpFirst(@, to[2], f)]]
      [] IsBefore(from) /\ to = Source ->
            [net |-> net, fl |-> [fl EXCEPT !.source = BumpFirst(@, from[2], 0 - f)]]
      [] IsBefore(from) /\ IsAfter(to) /\ from[2] = to[2] ->
            [net |-> [net EXCEPT !.node_values[from[2]].flow = @ + f], fl |-> fl]
      [] IsAfter(from) /\ IsBefore(to) /\ from[2] = to[2] ->
            [net |-> [net EXCEPT !.node_values[from[2]].flow = @ - f], fl |-> fl]
      [] IsAfter(from) /\ IsBefore(to) /\ from[2] # to[2] ->
            LET e == edge_value(net, from[2], to[2])
            IN  [net |-> set_edge_value(net, from[2], to[2], <<e[1] + f, e[2] - f>>),
                 fl |-> fl]
      [] IsBefore(from) /\ IsAfter(to) /\ from[2] # to[2] ->
            LET e == edge_value(net, to[2], from[2])
            IN  [net |-> set_edge_value(net, to[2], from[2], <<e[1] - f, e[2] + f>>),
                 fl |-> fl]
      [] IsAfter(from) /\ to = Sink ->
            [net |-> net, fl |-> [fl EXCEPT !.sink = BumpAll(@, from[2], f)]]
      [] from = Sink /\ IsAfter(to) ->
            [net |-> net, fl |-> [fl EXCEPT !.sink = BumpAll(@, to[2], 0 - f)]]
      [] OTHER -> [net |-> net, fl |-> fl]

\* Path::new: no position has a "from"
NewPath(net) == [pos \in Positions(net) |-> <<>>]

\* step's loop pushing an ancestor whatever the flow on the edge from it
StepPushesAnyAncestor(net, fl, visited, p) ==
    SelectSeq(FlowDescendents(net, fl, p),
              LAMBDA d : d \notin visited /\ flow_cap(net, fl, p, d)[2] > 0)
    \o SelectSeq(FlowAncestors(net, fl, p), LAMBDA a : a \notin visited)

\* The positions one iteration of step's loop pushes from p, in push order:
\* the descendents with cap > 0, then the ancestors with flow > 0, those
\* already visited left out.
StepPushes(net, fl, visited, p) ==
    SelectSeq(FlowDescendents(net, fl, p),
              LAMBDA d : d \notin visited /\ flow_cap(net, fl, p, d)[2] > 0)
    \o SelectSeq(FlowAncestors(net, fl, p),
              LAMBDA a : a \notin visited /\ flow_cap(net, fl, a, p)[1] > 0)

\* The while loop of Flow::step: the visited set and the path it ends with
RECURSIVE StepSearch(_, _, _, _, _)
StepSearch(net, fl, visited, path, s) ==
    IF s = <<>> THEN [visited |-> visited, path |-> path]
    ELSE LET p == Last(s) IN
         IF p \in visited THEN StepSearch(net, fl, visited, path, Pop(s))
         ELSE LET v == visited \cup {p}
                  pushes == StepPushes(net, fl, v, p)
                  path2 == [pos \in DOMAIN path |->
                               IF pos \in Range(pushes) THEN <<p>> ELSE path[pos]]
              IN  StepSearch(net, fl, v, path2, Pop(s) \o pushes)

\* step augmenting only the last step of the path, the one into "to"
AugmentLastStep(net, fl, path, to) ==
    IF path[to] = <<>> THEN [net |-> net, fl |-> fl]
    ELSE augment(net, fl, path[to][1], to, 1)

\* for path_step in path.path_rev(to) { self.augment(from, to, 1) }
RECURSIVE AugmentPath(_, _, _, _)
AugmentPath(net, fl, path, to) ==
    IF path[to] = <<>> THEN [net |-> net, fl |-> fl]
    ELSE LET from == path[to][1]
             r == augment(net, fl, from, to, 1)
         IN  AugmentPath(r.net, r.fl, path, from)

\* step returning true without a search for a path
StepAlwaysFound(net, fl) == [found |-> TRUE, net |-> net, fl |-> fl]

\* Flow::step: [found, net, fl]
step(net, fl) ==
    LET r == StepSearch(net, fl, {}, NewPath(net), <<Source>>)
    IN  IF Sink \notin r.visited THEN [found |-> FALSE, net |-> net, fl |-> fl]
        ELSE LET a == AugmentPath(net, fl, r.path, Sink)
             IN  [found |-> TRUE, net |-> a.net, fl |-> a.fl]

\* Flow::is_undirected_path; dir is "Descendent" or "Ancestor"
is_undirected_path(net, fl, from, to, dir) ==
    LET fc == IF dir = "Descendent" THEN flow_cap(net, fl, from, to)
              ELSE flow_cap(net, fl, to, from)
        is_undir_path_forward == fc[2] # 0
        is_undir_path_backward == fc[1] # 0
    IN  CASE from = Source /\ IsBefore(to) -> is_undir_path_forward
          [] IsBefore(from) /\ to = Source -> is_undir_path_backward
          [] IsBefore(from) /\ IsAfter(to) /\ from[2] = to[2] -> is_undir_path_forward
          [] IsAfter(from) /\ IsBefore(to) /\ from[2] = to[2] -> is_undir_path_backward
          [] IsAfter(from) /\ IsBefore(to) /\ from[2] # to[2] -> is_undir_path_forward
          [] IsBefore(from) /\ IsAfter(to) /\ from[2] # to[2] -> is_undir_path_backward
          [] IsAfter(from) /\ to = Sink -> is_undir_path_forward
          [] from = Sink /\ IsAfter(to) -> is_undir_path_backward
          [] OTHER -> FALSE

\* The while loop of Flow::cut: the positions it visits
RECURSIVE CutSearch(_, _, _, _)
CutSearch(net, fl, visited, s) ==
    IF s = <<>> THEN visited
    ELSE LET n == Last(s) IN
         IF n \in visited THEN CutSearch(net, fl, visited, Pop(s))
         ELSE LET pushes ==
                      SelectSeq(FlowDescendents(net, fl, n),
                          LAMBDA d : is_undirected_path(net, fl, n, d, "Descendent"))
                      \o SelectSeq(FlowAncestors(net, fl, n),
                          LAMBDA a : is_undirected_path(net, fl, n, a, "Ancestor"))
              IN  CutSearch(net, fl, visited \cup {n}, Pop(s) \o pushes)

\* The set "reachable" of Flow::cut: the nodes of the visited Before and After
\* positions
Reachable(net, fl) ==
    {pos[2] : pos \in {q \in CutSearch(net, fl, {}, <<Source>>) :
                           IsBefore(q) \/ IsAfter(q)}}

\* Flow::cut(orig): orig.difference(&reachable), kept in the order of orig
cut(net, fl, orig) ==
    LET reachable == Reachable(net, fl)
    IN  SelectSeq(orig, LAMBDA n : n \notin reachable)

(***************************************************************************)
(* flowmap/label.rs: label_node and label_network.                         *)
(***************************************************************************)
\* for ancestor2 in network.ancestors(ancestor) { if !sink.contains(..) { push } }
RECURSIVE PushMissing(_, _)
PushMissing(sink, ancestors2) ==
    IF ancestors2 = <<>> THEN sink
    ELSE PushMissing(IF Contains(sink, Head(ancestors2)) THEN sink
                     ELSE Append(sink, Head(ancestors2)),
                     Tail(ancestors2))

\* The capacity label_node gives the edge from a node that is neither
\* collapsed nor a PI
UncollapsedEdge == <<0, InfiniteCapacity>>

\* The body of "for ancestor in ancestors" of label_node for the node popped,
\* from the i-th ancestor on; st = [net, source, sink, visited, s]
RECURSIVE LabelAncestors(_, _, _, _, _)
LabelAncestors(st, p, node, ancestors, i) ==
    IF i > Len(ancestors) THEN st
    ELSE LET ancestor == ancestors[i]
             net1 == set_edge_value(st.net, ancestor, node, <<0, 1>>)
             value == net1.node_values[ancestor]
         IN  IF Contains(st.visited, ancestor)
             THEN LabelAncestors([st EXCEPT !.net = net1], p, node, ancestors, i + 1)
             ELSE LabelAncestors(
                    [net |-> IF value.label # <<p>> /\ ~value.is_pi
                             THEN set_edge_value(net1, ancestor, node, UncollapsedEdge)
                             ELSE net1,
                     source |-> IF value.label # <<p>> /\ value.is_pi
                                THEN Append(st.source, ancestor) ELSE st.source,
                     sink |-> IF value.label = <<p>>
                              THEN PushMissing(st.sink, net1.ancestors[ancestor])
                              ELSE st.sink,
                     visited |-> Append(st.visited, ancestor),
                     s |-> Append(st.s, ancestor)],
                    p, node, ancestors, i + 1)

\* The loop of label_node clearing the label of the node popped along with
\* its flow
RECURSIVE LabelSearchClearsLabel(_, _)
LabelSearchClearsLabel(st, p) ==
    IF st.s = <<>> THEN st
    ELSE LET node == Last(st.s)
             net1 == [st.net EXCEPT !.node_values[node].flow = 0,
                                    !.node_values[node].label = <<>>]
         IN  LabelSearchClearsLabel(
                LabelAncestors([st EXCEPT !.net = net1, !.s = Pop(st.s)],
                               p, node, net1.ancestors[node], 1),
                p)

\* The loop "while let Some(node) = s.pop()" of label_node
RECURSIVE LabelSearch(_, _)
LabelSearch(st, p) ==
    IF st.s = <<>> THEN st
    ELSE LET node == Last(st.s)
             net1 == [st.net EXCEPT !.node_values[node].flow = 0]
         IN  LabelSearch(
                LabelAncestors([st EXCEPT !.net = net1, !.s = Pop(st.s)],
                               p, node, net1.ancestors[node], 1),
                p)

\* The p of label_node: the maximum label of the node's ancestors (all are
\* labelled and there is one)
MaxAncestorLabel(net, node) ==
    MaxOf({net.node_values[a].label[1] : a \in Range(net.ancestors[node])})

\* label_node without sink.extend_from_slice(network.ancestors(node)): the
\* ancestors of the node being labelled are left out of the sink
LabelSubnetworkEmptySink(net, node, p) ==
    LET st == LabelSearch([net |-> net, source |-> <<>>, sink |-> <<>>,
                           visited |-> <<>>, s |-> <<node>>], p)
    IN  [net |-> st.net,
         frame |-> [node |-> node, p |-> p, visited |-> st.visited,
                    fl |-> NewFlow(node, st.source, st.sink), max_flow |-> 0]]

\* label_node from "let mut source" to Flow::new, for p >= 1: the network with
\* the subnetwork's flows and edge payloads reset, and label_node's locals
LabelSubnetwork(net, node, p) ==
    LET st == LabelSearch([net |-> net, source |-> <<>>, sink |-> net.ancestors[node],
                           visited |-> <<>>, s |-> <<node>>], p)
    IN  [net |-> st.net,
         frame |-> [node |-> node, p |-> p, visited |-> st.visited,
                    fl |-> NewFlow(node, st.source, st.sink), max_flow |-> 0]]

\* label_node keeping the label p only when fewer than K steps succeeded
LabelResultBelowK(net, fr, kk) ==
    IF fr.max_flow < kk
    THEN <<fr.p, cut(net, fr.fl, Append(fr.visited, fr.node))>>
    ELSE <<fr.p + 1, <<fr.node>>>>

\* label_node keeping the label p where it returns p + 1
LabelResultKeepsLevel(net, fr, kk) ==
    IF fr.max_flow <= kk
    THEN <<fr.p, cut(net, fr.fl, Append(fr.visited, fr.node))>>
    ELSE <<fr.p, <<fr.node>>>>

\* label_node returning p + 2 where it returns p + 1
LabelResultSkipsLevel(net, fr, kk) ==
    IF fr.max_flow <= kk
    THEN <<fr.p, cut(net, fr.fl, Append(fr.visited, fr.node))>>
    ELSE <<fr.p + 2, <<fr.node>>>>

\* What label_node returns once flow.step() has returned false: <<label, x_bar>>
LabelResult(net, fr, kk) ==
    IF fr.max_flow <= kk
    THEN <<fr.p, cut(net, fr.fl, Append(fr.visited, fr.node))>>
    ELSE <<fr.p + 1, <<fr.node>>>>

\* network.node_value_mut(ni).label = Some(label); ...x_bar = x_bar
WriteLabel(net, ni, res) ==
    [net EXCEPT !.node_values[ni].label = <<res[1]>>, !.node_values[ni].x_bar = res[2]]

\* No label_node call is running
NoFrame ==
    [node |-> 0, p |-> 0, visited |-> <<>>, fl |-> NewFlow(0, <<>>, <<>>), max_flow |-> 0]

(***************************************************************************)
(* flowmap/map.rs: inputs and map.                                         *)
(***************************************************************************)
\* "for ancestor in network.ancestors(*n)" of inputs
RECURSIVE InputsOfNode(_, _, _)
InputsOfNode(x_bar, acc, ancestors) ==
    IF ancestors = <<>> THEN acc
    ELSE InputsOfNode(x_bar,
                      IF ~Contains(x_bar, Head(ancestors)) /\ ~Contains(acc, Head(ancestors))
                      THEN Append(acc, Head(ancestors)) ELSE acc,
                      Tail(ancestors))

\* "for n in x_bar" of inputs, from the i-th element on
RECURSIVE InputsFrom(_, _, _, _)
InputsFrom(net, x_bar, acc, i) ==
    IF i > Len(x_bar) THEN acc
    ELSE InputsFrom(net, x_bar, InputsOfNode(x_bar, acc, net.ancestors[x_bar[i]]), i + 1)

\* map.rs: inputs(network, x_bar)
inputs(net, x_bar) == InputsFrom(net, x_bar, <<>>, 1)

\* map starting with the first node flagged PO alone
MapWorklistFirstPO(net) ==
    SubSeq(NodesWhere(net, 0, {n \in Nodes(net) : net.node_values[n].is_po}), 1, 1)

\* The worklist map starts with: the nodes flagged PO, in index order
MapWorklist(net) == NodesWhere(net, 0, {n \in Nodes(net) : net.node_values[n].is_po})

NoMapping == [done |-> {}, luts |-> <<>>, s |-> <<>>]

\* The assertion of map on the number of inputs of the LUT just pushed
MapAssertion(num_inputs, kk) == num_inputs > 0 /\ num_inputs <= kk

(***************************************************************************)
(* The networks the pipeline is run on.                                    *)
(***************************************************************************)
\* The ancestor lists a gate may get from the nodes below it: one, or two in
\* index order (a parallel edge included)
AncestorChoices(n) ==
    {<<a>> : a \in 0..(n - 1)} \cup {c \in (0..(n - 1)) \X (0..(n - 1)) : c[1] <= c[2]}

\* The edge lists <<from, to>> of the networks whose nodes below NumInputs have
\* no ancestors and whose gates NumInputs .. n-1 each have one or two ancestors
\* of a lower index
RECURSIVE EdgeLists(_)
EdgeLists(n) ==
    IF n <= NumInputs THEN {<<>>}
    ELSE {e \o [i \in 1..Len(a) |-> <<a[i], n - 1>>] :
              e \in EdgeLists(n - 1), a \in AncestorChoices(n - 1)}

\* The frontend's marking of a primary input: label Some(0), is_pi
MarkInput(value) == [value EXCEPT !.label = <<0>>, !.is_pi = TRUE]

\* A legal network: the edges added in order, every node without ancestors
\* marked as a primary input with label 0, the nodes of pos flagged PO
BuildNetwork(max_index, edges, pos) ==
    LET net == add_edges(NewNetwork(max_index), edges)
    IN  [net EXCEPT !.node_values =
            [n \in 0..max_index |->
                LET v == IF net.ancestors[n] = <<>> THEN MarkInput(@[n]) ELSE @[n]
                IN  [v EXCEPT !.is_po = n \in pos]]]

(***************************************************************************)
(* The state machine: main's label_network; map.                           *)
(***************************************************************************)
\* No file read, no call made on the network, no line parsed
NoFile == [m |-> 0, inputs |-> <<>>, latches |-> <<>>, outputs |-> <<>>, gates |-> <<>>]

NoCall == [op |-> "", args |-> <<>>]

NoLine == [section |-> "", literals |-> <<>>]

NoRecord == [tag |-> "", kind |-> "", literals |-> <<>>, error |-> ""]

Start(net, kk) ==
    /\ network = net
    /\ k = kk
    /\ topo = NewTopologicalOrder(net)
    /\ pc = "label_network"
    /\ frame = NoFrame
    /\ mapping = NoMapping
    /\ tables = <<>>
    /\ panic = ""
    /\ call = NoCall
    /\ added = <<>>
    /\ line = NoLine
    /\ record = NoRecord

\* The K of the test label_uncollapsed_nodes_feed_sink
KUncollapsed == 2

\* The K of the tests label and map_test
KFig5 == 3

\* Fig. 5(a) of the FlowMap paper, as the tests label and map_test build it
Fig5Edges ==
    << <<0, 5>>, <<1, 5>>, <<1, 6>>, <<2, 6>>, <<3, 7>>, <<4, 7>>, <<5, 8>>, <<5, 12>>,
       <<6, 8>>, <<6, 10>>, <<7, 9>>, <<7, 11>>, <<8, 9>>, <<9, 10>>, <<10, 11>>,
       <<11, 12>> >>

Fig5Network == BuildNetwork(12, Fig5Edges, {12})

\* A network of nine nodes in which node 5 is labelled after node 8, whose
\* labelling has left flow on edges that leave the cone of node 5
StaleEdges ==
    << <<1, 3>>, <<0, 3>>, <<2, 4>>, <<3, 4>>, <<4, 5>>, <<4, 6>>, <<1, 6>>, <<2, 7>>,
       <<0, 7>>, <<7, 8>>, <<6, 8>> >>

StaleNetwork == BuildNetwork(8, StaleEdges, {5, 8})

\* The network of the test topological_order, which has a unique topological
\* order
UniqueOrderEdges ==
    << <<0, 1>>, <<0, 2>>, <<1, 2>>, <<1, 3>>, <<2, 3>>, <<3, 4>>, <<3, 5>>, <<3, 6>>,
       <<4, 5>>, <<5, 6>>, <<6, 7>> >>

UniqueOrderNetwork == BuildNetwork(7, UniqueOrderEdges, {7})

\* An AND gate whose two inputs are the same node, as main adds it: two
\* parallel edges
ParallelEdges == << <<0, 1>>, <<0, 1>> >>

ParallelNetwork == BuildNetwork(1, ParallelEdges, {1})

\* Two gates that share the gate driving them
SharedEdges == << <<0, 2>>, <<1, 2>>, <<2, 3>>, <<0, 3>>, <<2, 4>>, <<1, 4>> >>

SharedNetwork == BuildNetwork(4, SharedEdges, {3, 4})

\* A network in which label_node takes the cut of a flow that followed edge
\* values an earlier call left behind
LeakEdges ==
    << <<2, 3>>, <<1, 3>>, <<2, 4>>, <<1, 4>>, <<0, 5>>, <<4, 5>>, <<5, 6>>, <<1, 7>>,
       <<4, 7>>, <<3, 8>>, <<5, 8>>, <<1, 9>>, <<7, 9>>, <<3, 10>>, <<9, 10>>, <<8, 11>>,
       <<7, 11>>, <<6, 12>>, <<5, 12>>, <<11, 13>>, <<7, 13>> >>

LeakNetwork == BuildNetwork(13, LeakEdges, {10, 12, 13})

\* A network in which node 0, an AND gate whose two inputs are node 5, is
\* labelled a second time after the nodes it drives have been labelled
RelabelledEdges ==
    << <<5, 0>>, <<5, 0>>, <<8, 3>>, <<1, 3>>, <<0, 4>>, <<1, 4>>, <<3, 5>>, <<2, 5>>,
       <<7, 6>>, <<8, 7>>, <<4, 7>> >>

RelabelledNetwork == BuildNetwork(8, RelabelledEdges, {6})

\* An input that is also an output, beside a gate that is an output
PassThroughEdges == << <<0, 2>>, <<1, 2>> >>

PassThroughNetwork == BuildNetwork(2, PassThroughEdges, {0, 2})

\* The nodes flagged PO in an enumerated network: the gates that drive no other
\* node
Undriving(max_index, edges) ==
    {n \in NumInputs..max_index : \A i \in 1..Len(edges) : edges[i][1] # n}

\* The enumerated networks
EnumeratedNetworks ==
    LET max_index == NumInputs + NumGates - 1
    IN  {BuildNetwork(max_index, edges, Undriving(max_index, edges)) :
             edges \in EdgeLists(NumInputs + NumGates)}

Init ==
    /\ aiger = NoFile
    /\ \/ \E net \in EnumeratedNetworks : Start(net, KUncollapsed)
       \/ Start(Fig5Network, KFig5)
       \/ Start(StaleNetwork, KUncollapsed)
       \/ Start(UniqueOrderNetwork, KUncollapsed)
       \/ Start(ParallelNetwork, KUncollapsed)
       \/ Start(SharedNetwork, KUncollapsed)
       \/ Start(LeakNetwork, KUncollapsed)
       \/ Start(PassThroughNetwork, KUncollapsed)
       \/ Start(RelabelledNetwork, KUncollapsed)

Panic(message) ==
    /\ pc' = "panic"
    /\ panic' = message

\* One iteration of label_network's loop with topo.next() = Some(ni), up to
\* label_node's first flow.step(): a PI is skipped, a node whose ancestors are
\* all labelled 0 is labelled at once.
LabelNetworkIter ==
    /\ pc = "label_network"
    /\ topo.s # <<>>
    /\ LET ni == Last(topo.s)
           ancestors == network.ancestors[ni]
       IN  /\ topo' = TopoNext(network, topo)
           /\ UNCHANGED <<k, mapping, tables, frontend>>
           /\ IF network.node_values[ni].is_pi
              THEN UNCHANGED <<network, pc, frame, panic>>
              ELSE IF \E a \in Range(ancestors) : network.node_values[a].label = <<>>
              THEN Panic("ancestor to be labelled") /\ UNCHANGED <<network, frame>>
              ELSE IF ancestors = <<>>
              THEN Panic("node being labelled to have ancestors")
                   /\ UNCHANGED <<network, frame>>
              ELSE LET p == MaxAncestorLabel(network, ni) IN
                   IF p = 0
                   THEN /\ network' = WriteLabel(network, ni, <<p + 1, <<ni>>>>)
                        /\ UNCHANGED <<pc, frame, panic>>
                   ELSE LET sub == LabelSubnetwork(network, ni, p) IN
                        /\ network' = sub.net
                        /\ frame' = sub.frame
                        /\ pc' = "flow"
                        /\ UNCHANGED panic

\* One call of flow.step() in label_node's loop "while flow.step()"
FlowStep ==
    /\ pc = "flow"
    /\ LET r == step(network, frame.fl)
       IN  IF r.found
           THEN /\ network' = r.net
                /\ frame' = [frame EXCEPT !.fl = r.fl, !.max_flow = @ + 1]
                /\ UNCHANGED pc
           ELSE /\ pc' = "label_node"
                /\ UNCHANGED <<network, frame>>
    /\ UNCHANGED <<k, topo, mapping, tables, panic, frontend>>

\* label_node returns after the flow loop and label_network stores the result
LabelNodeReturn ==
    /\ pc = "label_node"
    /\ network' = WriteLabel(network, frame.node, LabelResult(network, frame, k))
    /\ frame' = NoFrame
    /\ pc' = "label_network"
    /\ UNCHANGED <<k, topo, mapping, tables, panic, frontend>>

\* topo.next() = None: label_network returns
LabelNetworkReturn ==
    /\ pc = "label_network"
    /\ topo.s = <<>>
    /\ pc' = "labelled"
    /\ UNCHANGED <<network, k, topo, frame, mapping, tables, panic, frontend>>

\* map is called and collects the POs
MapStart ==
    /\ pc = "labelled"
    /\ mapping' = [done |-> {}, luts |-> <<>>, s |-> MapWorklist(network)]
    /\ pc' = "map"
    /\ UNCHANGED <<network, k, topo, frame, tables, panic, frontend>>

\* One iteration of map's worklist loop
MapIter ==
    /\ pc = "map"
    /\ mapping.s # <<>>
    /\ LET n == Last(mapping.s)
           rest == Pop(mapping.s)
           value == network.node_values[n]
           ins == inputs(network, value.x_bar)
           lut == [output |-> n, inputs |-> ins, contains |-> value.x_bar]
       IN  IF n \in mapping.done
           THEN mapping' = [mapping EXCEPT !.s = rest] /\ UNCHANGED <<pc, panic>>
           ELSE IF value.is_pi /\ ~value.is_po
           THEN /\ mapping' = [mapping EXCEPT !.s = rest, !.done = @ \cup {n}]
                /\ UNCHANGED <<pc, panic>>
           ELSE IF ~MapAssertion(Len(ins), k)
           THEN /\ mapping' = [done |-> mapping.done \cup {n},
                               luts |-> Append(mapping.luts, lut), s |-> rest]
                /\ Panic("number of inputs to LUT")
           ELSE /\ mapping' = [done |-> mapping.done \cup {n},
                               luts |-> Append(mapping.luts, lut), s |-> rest \o ins]
                /\ UNCHANGED <<pc, panic>>
    /\ UNCHANGED <<network, k, topo, frame, tables, frontend>>

\* The worklist is empty: map returns luts
MapReturn ==
    /\ pc = "map"
    /\ mapping.s = <<>>
    /\ pc' = "mapped"
    /\ UNCHANGED <<network, k, topo, frame, mapping, tables, panic, frontend>>

Next ==
    \/ LabelNetworkIter
    \/ FlowStep
    \/ LabelNodeReturn
    \/ LabelNetworkReturn
    \/ MapStart
    \/ MapIter
    \/ MapReturn

Spec == Init /\ [][Next]_vars

\* The worklist loop of map is sequential code: an iteration that can be run
\* is run, and map returns once the worklist is empty
FairSpec == Spec /\ WF_vars(MapIter) /\ WF_vars(MapReturn)

(***************************************************************************)
(* evaluate.rs: LogicNode and evaluate.                                    *)
(***************************************************************************)
Literal(l) == [tag |-> "Literal", l |-> l]

And(input0, input1) == [tag |-> "And", input0 |-> input0, input1 |-> input1]

Inverter(ln) == [tag |-> "Inverter", ln |-> ln]

Value(v) == [tag |-> "Value", v |-> v]

\* LogicNode::replace(self, n, replacement)
RECURSIVE replace(_, _, _)
replace(logic, n, replacement) ==
    CASE logic.tag = "Literal" -> IF logic.l = n THEN replacement ELSE logic
      [] logic.tag = "And" -> And(replace(logic.input0, n, replacement),
                                  replace(logic.input1, n, replacement))
      [] logic.tag = "Inverter" -> Inverter(replace(logic.ln, n, replacement))
      [] logic.tag = "Value" -> logic

\* LogicNode::evaluate(&self): <<b>> for the boolean b, <<>> for the panic on a
\* Literal; && does not evaluate input1 when input0 is false
RECURSIVE evaluate_logic(_)
evaluate_logic(logic) ==
    CASE logic.tag = "Literal" -> <<>>
      [] logic.tag = "And" ->
            LET v0 == evaluate_logic(logic.input0)
            IN  IF v0 = <<TRUE>> THEN evaluate_logic(logic.input1) ELSE v0
      [] logic.tag = "Inverter" ->
            LET v == evaluate_logic(logic.ln)
            IN  IF v = <<>> THEN <<>> ELSE <<~v[1]>>
      [] logic.tag = "Value" -> <<logic.v>>

\* "for ancestor in ancestors" of evaluate: the ancestors pushed, those with no
\* descendent in contains that is not visited
RECURSIVE EvaluatePushes(_, _, _, _)
EvaluatePushes(net, lut, visited, ancestors) ==
    IF ancestors = <<>> THEN <<>>
    ELSE LET remaining_descendents ==
                 {ni \in Range(net.descendents[Head(ancestors)]) :
                     Contains(lut.contains, ni) /\ ni \notin visited}
         IN  (IF remaining_descendents = {} THEN <<Head(ancestors)>> ELSE <<>>)
                 \o EvaluatePushes(net, lut, visited, Tail(ancestors))

InverterAssertion == "inverter should only be driven by its non-inverted variable"

AndAssertion == "and gate should only be driven by two literals"

\* The loop "while let Some(n) = s.pop()" of evaluate;
\* st = [logic, visited, s, panic]
RECURSIVE EvaluateSearch(_, _, _)
EvaluateSearch(net, lut, st) ==
    IF st.s = <<>> \/ st.panic # "" THEN st
    ELSE LET n == Last(st.s)
             rest == Pop(st.s)
             visited == st.visited \cup {n}
             ancestors == net.ancestors[n]
         IN  IF n \in st.visited
             THEN EvaluateSearch(net, lut, [st EXCEPT !.s = rest])
             ELSE IF Contains(lut.inputs, n)
             THEN EvaluateSearch(net, lut, [st EXCEPT !.s = rest, !.visited = visited])
             ELSE IF is_inverted(n) /\ Len(ancestors) # 1
             THEN [st EXCEPT !.panic = InverterAssertion]
             ELSE IF ~is_inverted(n) /\ Len(ancestors) # 2
             THEN [st EXCEPT !.panic = AndAssertion]
             ELSE EvaluateSearch(net, lut,
                    [logic |-> replace(st.logic, n,
                                 IF is_inverted(n) THEN Inverter(Literal(ancestors[1]))
                                 ELSE And(Literal(ancestors[1]), Literal(ancestors[2]))),
                     visited |-> visited,
                     s |-> rest \o EvaluatePushes(net, lut, visited, ancestors),
                     panic |-> ""])

\* evaluate(network, lut) up to the closure it returns: the logic the closure
\* captures, or the assertion that failed
evaluate(net, lut) ==
    EvaluateSearch(net, lut, [logic |-> Literal(lut.output), visited |-> {},
                              s |-> <<lut.output>>, panic |-> ""])

\* "for (literal, value) in inputs.iter().zip(literal_values.iter())" of the
\* closure, from the i-th input on
RECURSIVE ReplaceInputs(_, _, _, _)
ReplaceInputs(logic, inputs_, literal_values, i) ==
    IF i > Len(inputs_) \/ i > Len(literal_values) THEN logic
    ELSE ReplaceInputs(replace(logic, inputs_[i], Value(literal_values[i])),
                       inputs_, literal_values, i + 1)

\* The closure evaluate returns, applied to literal_values
Closure(lut, logic, literal_values) ==
    evaluate_logic(ReplaceInputs(logic, lut.inputs, literal_values, 1))

RECURSIVE Pow2(_)
Pow2(n) == IF n = 0 THEN 1 ELSE 2 * Pow2(n - 1)

\* main: stim = (0..lut.inputs.len()).map(|j| i & (1 << j) != 0)
Stim(i, n) == [j \in 1..n |-> (i \div Pow2(j - 1)) % 2 = 1]

(***************************************************************************)
(* main.rs: the network of an and-inverter graph, and the truth tables.    *)
(***************************************************************************)
\* The greatest variable of the enumerated and-inverter graphs
MaxVariable == 3

\* "for variable in 0..=max_variable": the implied inverters
InverterEdges(max_variable) == [v \in 1..(max_variable + 1) |-> <<2 * (v - 1), 2 * (v - 1) + 1>>]

\* Aiger::AndGate { output, inputs: [input0, input1] }, a gate being
\* <<output, input0, input1>>
AndGateEdges(gates) ==
    [i \in 1..(2 * Len(gates)) |->
        <<gates[(i + 1) \div 2][IF i % 2 = 1 THEN 2 ELSE 3], gates[(i + 1) \div 2][1]>>]

\* Aiger::Latch { output, input }, a latch being <<output, input>>: the edge
\* next-state -> state
LatchEdges(latches) == [i \in 1..Len(latches) |-> <<latches[i][2], latches[i][1]>>]

\* The next-state literals of the latches
LatchNextStates(latches) == {latches[i][2] : i \in 1..Len(latches)}

\* The state literals of the latches
LatchOutputs(latches) == {latches[i][1] : i \in 1..Len(latches)}

\* The network main builds from an AIGER file, whose records come in the order
\* Input, Latch, Output, AndGate: the implied inverters, literal 0 and the
\* inputs PI with label 0, a latch's state literal PI and PO (its label is not
\* set), the outputs PO
BuildAig(file) ==
    LET max_literal == 2 * file.m + 1
        net == add_edges(NewNetwork(max_literal),
                         InverterEdges(file.m) \o LatchEdges(file.latches)
                             \o AndGateEdges(file.gates))
    IN  [net EXCEPT !.node_values =
            [n \in 0..max_literal |->
                LET v == IF n = 0 \/ n \in Range(file.inputs) THEN MarkInput(@[n]) ELSE @[n]
                IN  [v EXCEPT !.is_pi = @ \/ n \in LatchOutputs(file.latches),
                              !.is_po = n \in LatchOutputs(file.latches)
                                            \/ n \in Range(file.outputs)]]]

\* An AIGER file: the header's m and the records of its four sections
AigFile(m, inputs_, latches, outputs, gates) ==
    [m |-> m, inputs |-> inputs_, latches |-> latches, outputs |-> outputs,
     gates |-> gates]

\* The input literals of the enumerated and-inverter graphs
AigInputs == <<2, 4>>

\* The lists of AND gates of the variables above the inputs up to v, each over two
\* literals of lower variables, input0 >= input1
RECURSIVE GateLists(_)
GateLists(v) ==
    IF v <= Len(AigInputs) THEN {<<>>}
    ELSE {Append(g, <<2 * v, input0, input1>>) :
              g \in GateLists(v - 1),
              input0 \in 0..(2 * v - 1), input1 \in 0..(2 * v - 1)}

EnumeratedAigs ==
    {AigFile(MaxVariable, AigInputs, <<>>, <<o>>, g) :
        g \in {h \in GateLists(MaxVariable) : \A i \in 1..Len(h) : h[i][2] >= h[i][3]},
        o \in {2 * MaxVariable, 2 * MaxVariable + 1}}

\* An and-inverter graph of seven variables with the output 15, whose LUT
\* contains the gate 6 that does not drive the output inside the LUT
DanglingGates ==
    << <<6, 0, 1>>, <<8, 4, 2>>, <<10, 3, 6>>, <<12, 10, 8>>, <<14, 12, 1>> >>

DanglingAig == AigFile(7, AigInputs, <<>>, <<15>>, DanglingGates)

\* "aag 1 0 1 2 0": the toggle flip-flop of the AIGER format's description, the
\* latch 2 with the next state 3 and the outputs 2 and 3
ToggleAig == AigFile(1, <<>>, << <<2, 3>> >>, <<2, 3>>, <<>>)

\* "aag 4 2 1 1 1": the latch 8 that stores the AND gate 6 of the inputs 2 and 4
RegisterAig == AigFile(4, <<2, 4>>, << <<8, 6>> >>, <<8>>, << <<6, 4, 2>> >>)

\* "aag 2 1 0 1 0": the input 2 is the output, the variable 2 is not used
UnusedVariableAig == AigFile(2, <<2>>, <<>>, <<2>>, <<>>)

\* "aag 3 2 0 2 1": the AND gate 6 named by both outputs
RepeatedOutputAig == AigFile(3, <<2, 4>>, <<>>, <<6, 6>>, << <<6, 4, 2>> >>)

\* "aag 3 1 1 0 1": the latch 4 whose next state 6 is the AND of its state and
\* the input 2
HoldAig == AigFile(3, <<2>>, << <<4, 6>> >>, <<>>, << <<6, 4, 2>> >>)

FixtureAigs ==
    {DanglingAig, ToggleAig, RegisterAig, HoldAig, UnusedVariableAig, RepeatedOutputAig}

InitAig ==
    \E file \in EnumeratedAigs \cup FixtureAigs :
        /\ aiger = file
        /\ Start(BuildAig(file), KUncollapsed)

LiteralPanic == "can't evaluate logic node with literal"

\* main's "for lut in luts", one LUT: evaluate and the rows of the truth table
EvaluateLut ==
    /\ pc = "mapped"
    /\ Len(tables) < Len(mapping.luts)
    /\ LET lut == mapping.luts[Len(tables) + 1]
           n == Len(lut.inputs)
           f == evaluate(network, lut)
           rows == [i \in 1..Pow2(n) |-> Closure(lut, f.logic, Stim(i - 1, n))]
       IN  IF f.panic # ""
           THEN Panic(f.panic) /\ UNCHANGED tables
           ELSE IF \E i \in 1..Pow2(n) : rows[i] = <<>>
           THEN Panic(LiteralPanic) /\ UNCHANGED tables
           ELSE /\ tables' = Append(tables, [i \in 1..Pow2(n) |-> rows[i][1]])
                /\ UNCHANGED <<pc, panic>>
    /\ UNCHANGED <<network, k, topo, frame, mapping, frontend>>

\* Every LUT has been printed: main returns
MainReturn ==
    /\ pc = "mapped"
    /\ Len(tables) = Len(mapping.luts)
    /\ pc' = "done"
    /\ UNCHANGED <<network, k, topo, frame, mapping, tables, panic, frontend>>

NextAig ==
    \/ Next
    \/ EvaluateLut
    \/ MainReturn

SpecAig == InitAig /\ [][NextAig]_vars

(***************************************************************************)
(* boolean_network.rs: the operations as a user of the network calls them, *)
(* with their bounds assertions.                                           *)
(***************************************************************************)
\* The networks of the calls have the nodes 0 .. NetMaxIndex, and the calls name
\* the indices 0 .. NetMaxIndex+1
NetMaxIndex == 1

\* The number of add_edge calls that return
MaxEdges == 3

Indices == 0..(NetMaxIndex + 1)

\* The message of the bounds assertion with the {} of
\* "node index out of bounds: the maximum node index is {} but the node index is {}"
\* filled in the wrong order
OutOfBoundsSwapped(max_node_index, node_index) ==
    "node index out of bounds: the maximum node index is " \o ToString(node_index)
        \o " but the node index is " \o ToString(max_node_index)

\* The message of the bounds assertion of every operation
OutOfBounds(max_node_index, node_index) ==
    "node index out of bounds: the maximum node index is " \o ToString(max_node_index)
        \o " but the node index is " \o ToString(node_index)

\* Option::unwrap() of edge_value_index on an edge that was never added
UnwrapNone == "called Option::unwrap() on a None value"

\* The assertions of an operation, made on its indices in the order of args:
\* the message of the first that fails, "" when all hold
BoundsAssertions(net, args) ==
    LET bad == {i \in 1..Len(args) : ~(args[i] <= net.max_node_index)}
    IN  IF bad = {} THEN ""
        ELSE OutOfBounds(net.max_node_index, args[CHOOSE i \in bad : \A j \in bad : i <= j])

\* BooleanNetwork::ancestors(of) and descendents(of), the index in bounds
ancestors(net, of) == net.ancestors[of]

descendents(net, of) == net.descendents[of]

\* A call of an operation that reads one node: ancestors, descendents,
\* node_value, node_value_mut.  It panics or returns a reference, which leaves
\* the state as it is
NodeCall(op, of) ==
    /\ pc = "network"
    /\ IF BoundsAssertions(network, <<of>>) # ""
       THEN /\ call' = [op |-> op, args |-> <<of>>]
            /\ Panic(BoundsAssertions(network, <<of>>))
       ELSE UNCHANGED <<call, pc, panic>>
    /\ UNCHANGED <<network, added, k, topo, frame, mapping, tables, aiger, line, record>>

AncestorsCall == \E of \in Indices : NodeCall("ancestors", of)

DescendentsCall == \E of \in Indices : NodeCall("descendents", of)

NodeValueCall == \E of \in Indices : NodeCall("node_value", of)

NodeValueMutCall == \E of \in Indices : NodeCall("node_value_mut", of)

\* A call of edge_value or edge_value_mut: edge_value_index asserts the bounds
\* of from and to, then unwraps the position of from among to's ancestors
EdgeCall(op, from, to) ==
    /\ pc = "network"
    /\ IF BoundsAssertions(network, <<from, to>>) # ""
       THEN /\ call' = [op |-> op, args |-> <<from, to>>]
            /\ Panic(BoundsAssertions(network, <<from, to>>))
       ELSE IF ~Contains(ancestors(network, to), from)
       THEN /\ call' = [op |-> op, args |-> <<from, to>>]
            /\ Panic(UnwrapNone)
       ELSE UNCHANGED <<call, pc, panic>>
    /\ UNCHANGED <<network, added, k, topo, frame, mapping, tables, aiger, line, record>>

EdgeValueCall == \E from \in Indices, to \in Indices : EdgeCall("edge_value", from, to)

EdgeValueMutCall == \E from \in Indices, to \in Indices : EdgeCall("edge_value_mut", from, to)

\* A call of add_edge(From(from), To(to)): the two assertions, then the pushes
AddEdgeCall ==
    \E from \in Indices, to \in Indices :
        /\ pc = "network"
        /\ Len(added) < MaxEdges
        /\ call' = [op |-> "add_edge", args |-> <<from, to>>]
        /\ IF BoundsAssertions(network, <<from, to>>) # ""
           THEN /\ Panic(BoundsAssertions(network, <<from, to>>))
                /\ UNCHANGED <<network, added>>
           ELSE /\ network' = add_edge(network, from, to)
                /\ added' = Append(added, <<from, to>>)
                /\ UNCHANGED <<pc, panic>>
        /\ UNCHANGED <<k, topo, frame, mapping, tables, aiger, line, record>>

\* BooleanNetwork::new(NetMaxIndex), no call made yet
InitNet ==
    /\ network = NewNetwork(NetMaxIndex)
    /\ k = 0
    /\ topo = [s |-> <<>>, visited |-> <<>>]
    /\ pc = "network"
    /\ frame = NoFrame
    /\ mapping = NoMapping
    /\ tables = <<>>
    /\ panic = ""
    /\ aiger = NoFile
    /\ call = NoCall
    /\ added = <<>>
    /\ line = NoLine
    /\ record = NoRecord

NextNet ==
    \/ AddEdgeCall
    \/ AncestorsCall
    \/ DescendentsCall
    \/ NodeValueCall
    \/ NodeValueMutCall
    \/ EdgeValueCall
    \/ EdgeValueMutCall

SpecNet == InitNet /\ [][NextNet]_vars

(***************************************************************************)
(* aiger.rs: the records and the parsers the reader applies to the         *)
(* literals of a line.                                                     *)
(***************************************************************************)
\* The literals of the parsed lines are 0 .. MaxLiteral
MaxLiteral == 3

\* The longest parsed line, in literals
MaxLineLen == 3

\* Result<Aiger, AigerError>: Ok(record) and Err(error)
Ok(r) == [tag |-> "Ok", kind |-> r.kind, literals |-> r.literals, error |-> ""]

Err(error) == [tag |-> "Err", kind |-> "", literals |-> <<>>, error |-> error]

\* enum Aiger
Input(l) == [kind |-> "Input", literals |-> <<l>>]

Latch(output, input) == [kind |-> "Latch", literals |-> <<output, input>>]

Output(l) == [kind |-> "Output", literals |-> <<l>>]

AndGate(output, inputs_) == [kind |-> "AndGate", literals |-> <<output>> \o inputs_]

\* Aiger::parse_input
parse_input(literals) ==
    IF Len(literals) = 1
    THEN IF ~is_inverted(literals[1]) THEN Ok(Input(literals[1]))
         ELSE Err("InvalidInverted")
    ELSE Err("InvalidLiteralCount")

\* Aiger::parse_latch
parse_latch(literals) ==
    IF Len(literals) = 2
    THEN IF ~is_inverted(literals[1]) THEN Ok(Latch(literals[1], literals[2]))
         ELSE Err("InvalidInverted")
    ELSE Err("InvalidLiteralCount")

\* Aiger::parse_output
parse_output(literals) ==
    IF Len(literals) = 1 THEN Ok(Output(literals[1]))
    ELSE Err("InvalidLiteralCount")

\* parse_and_gate refusing an inverted literal in any position
parse_and_gate_no_inverted(literals) ==
    IF Len(literals) = 3
    THEN IF \A i \in 1..3 : ~is_inverted(literals[i])
         THEN Ok(AndGate(literals[1], <<literals[2], literals[3]>>))
         ELSE Err("InvalidInverted")
    ELSE Err("InvalidLiteralCount")

\* Aiger::parse_and_gate
parse_and_gate(literals) ==
    IF Len(literals) = 3
    THEN IF ~is_inverted(literals[1])
         THEN Ok(AndGate(literals[1], <<literals[2], literals[3]>>))
         ELSE Err("InvalidInverted")
    ELSE Err("InvalidLiteralCount")

\* The lines of integer literals the reader may hand to the parser of a section
Sections == {"input", "latch", "output", "and_gate"}

RECURSIVE LiteralLists(_)
LiteralLists(n) ==
    IF n = 0 THEN {<<>>}
    ELSE LiteralLists(n - 1) \cup
             {Append(l, x) : l \in {m \in LiteralLists(n - 1) : Len(m) = n - 1},
                             x \in 0..MaxLiteral}

\* The reader has split a line of a section into its literals
InitReader ==
    /\ \E section \in Sections, literals \in LiteralLists(MaxLineLen) :
           line = [section |-> section, literals |-> literals]
    /\ record = NoRecord
    /\ pc = "reader"
    /\ network = NewNetwork(0)
    /\ k = 0
    /\ topo = [s |-> <<>>, visited |-> <<>>]
    /\ frame = NoFrame
    /\ mapping = NoMapping
    /\ tables = <<>>
    /\ panic = ""
    /\ aiger = NoFile
    /\ call = NoCall
    /\ added = <<>>

\* "parser(&literals)" for the parser of the line's section
Parse(section, result) ==
    /\ pc = "reader"
    /\ line.section = section
    /\ record' = result
    /\ pc' = "parsed"
    /\ UNCHANGED <<network, k, topo, frame, mapping, tables, panic, aiger, call, added, line>>

ParseInput == Parse("input", parse_input(line.literals))

ParseLatch == Parse("latch", parse_latch(line.literals))

ParseOutput == Parse("output", parse_output(line.literals))

ParseAndGate == Parse("and_gate", parse_and_gate(line.literals))

NextReader ==
    \/ ParseInput
    \/ ParseLatch
    \/ ParseOutput
    \/ ParseAndGate

SpecReader == InitReader /\ [][NextReader]_vars

(***************************************************************************)
(* Notions the properties are stated with.                                 *)
(***************************************************************************)
IsPI(n) == network.node_values[n].is_pi

IsPO(n) == network.node_values[n].is_po

LabelOf(n) == network.node_values[n].label[1]

XBar(n) == Range(network.node_values[n].x_bar)

Ancestors(n) == Range(network.ancestors[n])

\* The nodes outside S that have an edge into a node of S
InputNodes(S) == UNION {Ancestors(v) : v \in S} \ S

\* The transitive ancestors of the nodes of S
RECURSIVE AncestorsClosure(_)
AncestorsClosure(S) ==
    LET T == S \cup UNION {Ancestors(v) : v \in S}
    IN  IF T = S THEN S ELSE AncestorsClosure(T)

\* The fan-in cone of n: its transitive ancestors
Cone(n) == AncestorsClosure(Ancestors(n))

NonPI == {n \in Nodes(network) : ~IsPI(n)}

\* The K-feasible node sets of n: n and non-PI nodes of its cone, with at most
\* k input nodes
FeasibleSets(n) ==
    {C \in {D \cup {n} : D \in SUBSET (Cone(n) \ {m \in Nodes(network) : IsPI(m)})} :
        Cardinality(InputNodes(C)) <= k}

Height(C) == MaxOf({LabelOf(u) : u \in InputNodes(C)})

\* The least 1 + height over the K-feasible node sets of n
OptimumDepth(n) ==
    LET depths == {1 + Height(C) : C \in FeasibleSets(n)}
    IN  CHOOSE d \in depths : \A e \in depths : d <= e

LabelNetworkReturned == pc \in {"labelled", "map", "mapped"}

\* C1: after label_network the label of every non-PI node is the optimum depth,
\* the least 1 + max label of the inputs over its K-feasible node sets.
C1_LabelIsOptimumDepth ==
    pc = "labelled" => \A n \in NonPI : LabelOf(n) = OptimumDepth(n)

\* C2: after label_network with parameter K every non-PI node n has at most K
\* input nodes of x_bar(n).
C2_CutHasAtMostKInputs ==
    LabelNetworkReturned => \A n \in NonPI : Cardinality(InputNodes(XBar(n))) <= k

\* The network of the test label_uncollapsed_nodes_feed_sink is labelled, node 4
\* with label 2 and the cut {4}
C2_Witness ==
    /\ pc = "labelled"
    /\ network.max_node_index = 4
    /\ network.ancestors[3] = <<0, 1>>
    /\ network.ancestors[4] = <<2, 3>>
    /\ network.node_values[4].label = <<2>>
    /\ XBar(4) = {4}

\* C3: the assertion of map on the number of inputs never fails.
C3_MapAssertionHolds == panic # "number of inputs to LUT"

\* The non-PI nodes that are a PO or a transitive ancestor of a PO
Needed == {n \in NonPI : \E o \in Nodes(network) : IsPO(o) /\ n \in Cone(o) \cup {o}}

Luts == mapping.luts

LutsContaining(n) == {i \in 1..Len(Luts) : Contains(Luts[i].contains, n)}

\* C4: after map every needed node is in the contains of exactly
\* one emitted LUT.
C4_CoveredExactlyOnce ==
    pc = "mapped" => \A n \in Needed : Cardinality(LutsContaining(n)) = 1

\* No element of s occurs twice
NoRepetition(s) == \A i, j \in 1..Len(s) : s[i] = s[j] => i = j

\* C6: every LUT returned by map has its output in contains, and its inputs are
\* exactly, without repetition, the nodes outside contains with an edge into it.
C6_LutShape ==
    pc = "mapped" =>
        \A i \in 1..Len(Luts) :
            /\ Contains(Luts[i].contains, Luts[i].output)
            /\ NoRepetition(Luts[i].inputs)
            /\ Range(Luts[i].inputs) = InputNodes(Range(Luts[i].contains))

\* C7: after label_network every non-PI node n has 1 <= label(n) <= 1 + the
\* maximum label of its direct ancestors.
C7_LabelBounds ==
    LabelNetworkReturned =>
        \A n \in NonPI :
            /\ LabelOf(n) >= 1
            /\ LabelOf(n) <= 1 + MaxOf({LabelOf(a) : a \in Ancestors(n)})

\* label_network has returned with a node that kept the maximum label of its
\* ancestors and a node that exceeds it
C7_Witness ==
    /\ pc = "labelled"
    /\ \E n \in NonPI : LabelOf(n) = 1 + MaxOf({LabelOf(a) : a \in Ancestors(n)})
                        /\ LabelOf(n) >= 2
    /\ \E n \in NonPI : LabelOf(n) = MaxOf({LabelOf(a) : a \in Ancestors(n)})

\* The nodes of the subnetwork of the node being labelled that are collapsed
\* into the sink: the node and the nodes of its cone with label p
Collapsed == {frame.node} \cup {c \in Cone(frame.node) : LabelOf(c) = frame.p}

\* The nodes with an edge into the node being labelled or into a label-p node
\* of its cone
SinkNodes == UNION {Ancestors(v) : v \in Collapsed}

\* The node sets of the paths of the cone that lead from u to a sink node
RECURSIVE PathsFrom(_)
PathsFrom(u) ==
    LET ds == {d \in Cone(frame.node) : u \in Ancestors(d)}
    IN  (IF u \in SinkNodes THEN {{u}} ELSE {})
            \cup {{u} \cup q : q \in UNION {PathsFrom(d) : d \in ds}}

\* The greatest number of pairwise node-disjoint paths that start at distinct
\* nodes of pis and avoid the nodes of used
RECURSIVE MaxDisjoint(_, _)
MaxDisjoint(pis, used) ==
    IF pis = {} THEN 0
    ELSE LET s == CHOOSE x \in pis : TRUE
             rest == pis \ {s}
         IN  MaxOf({MaxDisjoint(rest, used)}
                     \cup {1 + MaxDisjoint(rest, used \cup q) :
                             q \in {r \in PathsFrom(s) : r \cap used = {}}})

\* The max-flow value of the subnetwork of the node being labelled
MaxFlowValue == MaxDisjoint({u \in Cone(frame.node) : IsPI(u)}, {})

\* C8: when the loop of step calls of label_node ends, the number of times step
\* returned true is the greatest number of node-disjoint paths from the PIs of
\* the cone to the sink nodes.
C8_StepsCountMaxFlow ==
    pc = "label_node" => frame.max_flow = MaxFlowValue

\* C9: after step has returned false, the cut that label_node takes is a minimum
\* cut: its number of inputs is the number of augmenting paths found, the
\* max-flow value.
C9_CutIsMinimum ==
    pc = "label_node" /\ frame.max_flow <= k =>
        LET c == Range(cut(network, frame.fl, Append(frame.visited, frame.node)))
        IN  /\ Cardinality(InputNodes(c)) = frame.max_flow
            /\ Cardinality(InputNodes(c)) = MaxFlowValue

\* The topological order of the network, if it has only one; <<>> otherwise
RECURSIVE UniqueOrderFrom(_)
UniqueOrderFrom(prefix) ==
    LET avail == {n \in Nodes(network) \ Range(prefix) : Ancestors(n) \subseteq Range(prefix)}
    IN  IF Len(prefix) = node_count(network) THEN prefix
        ELSE IF Cardinality(avail) # 1 THEN <<>>
        ELSE UniqueOrderFrom(Append(prefix, CHOOSE n \in avail : TRUE))

UniqueOrder == UniqueOrderFrom(<<>>)

\* The nodes TopologicalOrder has yielded so far, in order
Yielded == topo.visited

\* C10: TopologicalOrder never yields a node before each of its direct
\* ancestors has been yielded by an earlier call, and on a network with a unique
\* topological order the nodes come out in exactly that order.
C10_TopologicalOrder ==
    /\ \A i \in 1..Len(Yielded) :
           \A a \in Ancestors(Yielded[i]) : \E j \in 1..(i - 1) : Yielded[j] = a
    /\ LabelNetworkReturned /\ UniqueOrder # <<>> => Yielded = UniqueOrder

\* The value of node n when the network is simulated with the inputs of the
\* LUT fixed to stim: an odd literal is the NOT of its ancestor, an even one the
\* AND of its two ancestors
RECURSIVE Simulate(_, _, _)
Simulate(n, lut, stim) ==
    IF Contains(lut.inputs, n) THEN stim[Position(lut.inputs, n)]
    ELSE IF Ancestors(n) = {} THEN FALSE
    ELSE IF is_inverted(n) THEN ~Simulate(network.ancestors[n][1], lut, stim)
    ELSE /\ Simulate(network.ancestors[n][1], lut, stim)
         /\ Simulate(network.ancestors[n][2], lut, stim)

\* C5: for every LUT map emits on a labelled and-inverter network, the function
\* evaluate returns agrees on every assignment of the inputs with the value of
\* the output in the simulated network.
C5_EvaluateAgrees ==
    /\ panic \notin {LiteralPanic, InverterAssertion, AndAssertion}
    /\ \A t \in 1..Len(tables) :
           LET lut == Luts[t]
               n == Len(lut.inputs)
           IN  \A i \in 1..Pow2(n) :
                   tables[t][i] = Simulate(lut.output, lut, Stim(i - 1, n))

\* C11: on every network built with add_edge, parallel edges included, the
\* repeated calls of TopologicalOrder::next yield no node twice, and when next
\* has returned None every node has been yielded, so that label_network labels
\* each node that is not a PI once.
C11_EveryNodeOnce ==
    /\ NoRepetition(Yielded)
    /\ LabelNetworkReturned => Range(Yielded) = Nodes(network)

\* The latches: the nodes flagged PI and PO that have the next-state edge
Latches == {n \in Nodes(network) : IsPI(n) /\ IsPO(n) /\ Ancestors(n) # {}}

\* C12: on a network with a latch, label_network followed by map emits for the
\* latch a LUT whose output is the latch, whose inputs are non-empty and at
\* most K and whose contains holds the latch: neither pass panics, no LUT of a
\* latch has another shape, and when map has returned every latch has its LUT.
C12_LatchDriverLut ==
    /\ Latches # {} => panic = ""
    /\ \A i \in 1..Len(Luts) :
           Luts[i].output \in Latches =>
               /\ Luts[i].inputs # <<>>
               /\ Len(Luts[i].inputs) <= k
               /\ Contains(Luts[i].contains, Luts[i].output)
    /\ pc \in {"mapped", "done"} =>
           \A n \in Latches : \E i \in 1..Len(Luts) : Luts[i].output = n

\* C13: on every network main builds from well-formed AIGER records, latches
\* and unused variables included, label_network does not panic and, when it has
\* returned, every node that is not a PI has a label.
C13_LabelNetworkReturns ==
    /\ panic \notin {"ancestor to be labelled", "node being labelled to have ancestors"}
    /\ LabelNetworkReturned => \A n \in NonPI : network.node_values[n].label # <<>>

\* The nodes named by the Literal leaves of a logic tree
RECURSIVE Leaves(_)
Leaves(logic) ==
    CASE logic.tag = "Literal" -> {logic.l}
      [] logic.tag = "And" -> Leaves(logic.input0) \cup Leaves(logic.input1)
      [] logic.tag = "Inverter" -> Leaves(logic.ln)
      [] logic.tag = "Value" -> {}

\* C14: for every LUT map emits on a labelled and-inverter network, the
\* expansion loop of evaluate leaves only Literal leaves that name nodes of
\* lut.inputs, and the function it returns never reaches the panic "can't
\* evaluate logic node with literal".
C14_OnlyInputLiterals ==
    /\ panic # LiteralPanic
    /\ pc \in {"mapped", "done"} =>
           \A i \in 1..Len(Luts) :
               LET f == evaluate(network, Luts[i])
               IN  f.panic = "" => Leaves(f.logic) \subseteq Range(Luts[i].inputs)

\* C15: a call of ancestors, descendents, node_value, node_value_mut,
\* edge_value, edge_value_mut or add_edge that names a node index I greater
\* than max_index M panics with "node index out of bounds: the maximum node
\* index is M but the node index is I" and leaves the network as it was.
C15_OutOfBoundsFailsFast ==
    [][LET M == network.max_node_index
           bad == {i \in 1..Len(call'.args) : call'.args[i] > M}
       IN  bad # {} =>
               /\ pc' = "panic"
               /\ \E i \in bad :
                      panic' = "node index out of bounds: the maximum node index is "
                                   \o ToString(M) \o " but the node index is "
                                   \o ToString(call'.args[i])
               /\ network' = network
               /\ added' = added]_vars

C15_Witness ==
    /\ pc = "panic"
    /\ call.op = "add_edge"
    /\ call.args[1] <= network.max_node_index
    /\ call.args[2] > network.max_node_index
    /\ added # <<>>

\* C16: add_edge never records a third incoming edge, so after any sequence of
\* add_edge calls that returned every node has at most two ancestors.
C16_AtMostTwoAncestors ==
    \A n \in Nodes(network) : Len(ancestors(network, n)) <= 2

\* The other ends of the edges of a list at node n, in order: the from nodes of
\* the edges into n (end = 2) or the to nodes of the edges out of n (end = 1)
RECURSIVE OtherEnds(_, _, _)
OtherEnds(edges, n, end) ==
    IF edges = <<>> THEN <<>>
    ELSE (IF Head(edges)[end] = n THEN <<Head(edges)[3 - end]>> ELSE <<>>)
             \o OtherEnds(Tail(edges), n, end)

\* C17: after any sequence of add_edge calls, ancestors(n) lists the from nodes
\* of the edges into n and descendents(n) the to nodes of the edges out of n, in
\* the order they were added, the payload vector of n has one slot per
\* ancestor, a slot holding the default (0, 0), and node_count() is
\* max_index + 1.
C17_EdgesInOrder ==
    /\ \A n \in Nodes(network) :
           /\ ancestors(network, n) = OtherEnds(added, n, 2)
           /\ descendents(network, n) = OtherEnds(added, n, 1)
           /\ Len(network.edge_values[n]) = Len(ancestors(network, n))
           /\ \A i \in 1..Len(network.edge_values[n]) :
                  network.edge_values[n][i] = <<0, 0>>
    /\ node_count(network) = NetMaxIndex + 1

C17_Witness ==
    /\ Len(added) = MaxEdges
    /\ \E n \in Nodes(network) :
           /\ Len(ancestors(network, n)) >= 2
           /\ ancestors(network, n)[1] > ancestors(network, n)[2]
           /\ descendents(network, n) # <<>>

\* The nodes main has flagged PI and PO
FlaggedPI == {n \in Nodes(network) : IsPI(n)}

FlaggedPO == {n \in Nodes(network) : IsPO(n)}

\* C18 as stated: after main's construction from a file with the header
\* (M, I, L, O, A), node_count() is 2M+2, I + L + 1 nodes are flagged PI and
\* O + L nodes are flagged PO.
C18_NodeCounts ==
    /\ node_count(network) = 2 * aiger.m + 2
    /\ Cardinality(FlaggedPI) = Len(aiger.inputs) + Len(aiger.latches) + 1
    /\ Cardinality(FlaggedPO) = Len(aiger.outputs) + Len(aiger.latches)

\* C18, amended: node_count() is 2M+2, the nodes flagged PI are literal 0, the
\* input literals and the latch state literals, the nodes flagged PO are the
\* output literals and the latch state literals; a literal named twice is one
\* node, so the counts are at most I + L + 1 and O + L.
C18_FlaggedNodes ==
    LET states == {aiger.latches[i][1] : i \in 1..Len(aiger.latches)}
    IN  /\ node_count(network) = 2 * aiger.m + 2
        /\ FlaggedPI = {0} \cup Range(aiger.inputs) \cup states
        /\ FlaggedPO = Range(aiger.outputs) \cup states
        /\ Cardinality(FlaggedPI) <= Len(aiger.inputs) + Len(aiger.latches) + 1
        /\ Cardinality(FlaggedPO) <= Len(aiger.outputs) + Len(aiger.latches)

C18_Witness ==
    /\ aiger.latches # <<>>
    /\ Cardinality(FlaggedPI) = Len(aiger.inputs) + Len(aiger.latches) + 1
    /\ Cardinality(FlaggedPO) < Len(aiger.outputs) + Len(aiger.latches)

\* The number of literals the records of a section have
Arity(section) ==
    CASE section = "input" -> 1
      [] section = "latch" -> 2
      [] section = "output" -> 1
      [] section = "and_gate" -> 3

\* C19: a record line with the right number of literals parses to
\* Err(InvalidInverted) when its input literal, its latch state literal or its
\* AND-gate output literal is odd, and only then: an odd literal in an output
\* record, in the next-state position of a latch or in an input position of an
\* AND gate is accepted, and the record carries the literals of the line.
C19_InvalidInverted ==
    pc = "parsed" /\ Len(line.literals) = Arity(line.section) =>
        LET forbidden == line.section # "output" /\ line.literals[1] % 2 = 1
        IN  /\ forbidden => record.tag = "Err" /\ record.error = "InvalidInverted"
            /\ ~forbidden => record.tag = "Ok" /\ record.literals = line.literals

C19_Witness ==
    /\ pc = "parsed"
    /\ line.section = "latch"
    /\ Len(line.literals) = 2
    /\ line.literals[1] % 2 = 1
    /\ record.error = "InvalidInverted"

\* C20 as stated: during a label_node call with parameter K the number of
\* Flow::step calls that have returned true never exceeds K.
C20_FlowAtMostK == frame.max_flow <= k

\* C20, amended: the number of Flow::step calls that have returned true may
\* exceed K, and never exceeds the number of primary inputs label_node has
\* joined to the source, each of which passes one unit of flow.
C20_FlowAtMostSources == frame.max_flow <= Len(frame.fl.source)

C20_Witness ==
    /\ pc = "label_node"
    /\ frame.max_flow > k
    /\ frame.max_flow = Len(frame.fl.source)

\* The node label_network's loop is about to hand to label_node
NextNode == Last(topo.s)

\* label_node can be entered for n: n is no PI and has ancestors, all labelled
Labellable(n) ==
    /\ ~IsPI(n)
    /\ Ancestors(n) # {}
    /\ \A a \in Ancestors(n) : network.node_values[a].label # <<>>

\* C21: label_node for a node n whose direct ancestors have maximum label p
\* returns (1, {n}) when p = 0; when p >= 1 it runs the flow loop and returns
\* the label p with x_bar = the nodes of n's cone plus n that the cut's search
\* does not reach exactly when at most K steps succeeded, and otherwise the
\* label p + 1 with x_bar = {n}.
C21_LabelNodeResult ==
    [][/\ (pc = "label_network" /\ topo.s # <<>> /\ Labellable(NextNode))
          => IF MaxAncestorLabel(network, NextNode) = 0
             THEN /\ pc' = "label_network"
                  /\ network'.node_values[NextNode].label = <<1>>
                  /\ network'.node_values[NextNode].x_bar = <<NextNode>>
             ELSE /\ pc' = "flow"
                  /\ frame'.node = NextNode
                  /\ frame'.p = MaxAncestorLabel(network, NextNode)
       /\ (pc = "label_node" /\ pc' = "label_network")
          => LET n == frame.node
                 p == MaxAncestorLabel(network, n)
                 value == network'.node_values[n]
             IN  /\ p >= 1
                 /\ IF frame.max_flow <= k
                    THEN /\ value.label = <<p>>
                         /\ Range(value.x_bar)
                                = (Cone(n) \cup {n}) \ Reachable(network, frame.fl)
                         /\ NoRepetition(value.x_bar)
                    ELSE /\ value.label = <<p + 1>>
                         /\ value.x_bar = <<n>>]_vars

\* Both results of the flow loop have been returned: a node kept the label p
\* of its ancestors with a cut of two nodes or more, another got p + 1
C21_Witness ==
    /\ pc = "label_network"
    /\ \E n \in NonPI :
           /\ Labellable(n)
           /\ network.node_values[n].label = <<MaxAncestorLabel(network, n)>>
           /\ Cardinality(XBar(n)) >= 2
    /\ \E n \in NonPI :
           /\ Labellable(n)
           /\ MaxAncestorLabel(network, n) >= 1
           /\ network.node_values[n].label = <<MaxAncestorLabel(network, n) + 1>>
           /\ network.node_values[n].x_bar = <<n>>

\* C22: once label_network has returned, the x_bar of every non-PI node n
\* contains n, contains no node flagged PI, and every other member is a
\* transitive ancestor of n.
C22_XBarShape ==
    LabelNetworkReturned =>
        \A n \in NonPI :
            /\ n \in XBar(n)
            /\ \A m \in XBar(n) : ~IsPI(m)
            /\ XBar(n) \ {n} \subseteq Cone(n)

\* The (flow, cap) payloads of all edges of the network
EdgePayloads == UNION {Range(network.edge_values[n]) : n \in Nodes(network)}

\* The flow counters of the source and sink lists of the running label_node
FlowCounters == {pair[2] : pair \in Range(frame.fl.source) \cup Range(frame.fl.sink)}

\* C23: in every state of label_network the flow of every node is 0 or 1, and
\* no u32 subtraction has gone below zero: no edge flow, edge cap, source
\* counter or sink counter that augment has decremented is negative, and
\* 1 - flow of flow_cap is 0 or 1.
C23_FlowsInRange ==
    /\ \A n \in Nodes(network) :
           /\ network.node_values[n].flow \in {0, 1}
           /\ 1 - network.node_values[n].flow \in {0, 1}
    /\ \A e \in EdgePayloads : e[1] >= 0 /\ e[2] >= 0
    /\ \A c \in FlowCounters : c >= 0

\* The flow loop has pushed two units, an edge has given up all its capacity
\* (cap -= f reached 0) and a node carries flow
C23_Witness ==
    /\ pc = "flow"
    /\ frame.max_flow >= 2
    /\ <<1, 0>> \in EdgePayloads
    /\ \E n \in Nodes(network) : network.node_values[n].flow = 1

\* The positions one residual edge leads to from position p: the descendents
\* of p over an edge with cap > 0 and the ancestors of p over an edge with
\* flow > 0
ResidualSteps(net, fl, p) ==
    {d \in Range(FlowDescendents(net, fl, p)) : flow_cap(net, fl, p, d)[2] > 0}
    \cup {a \in Range(FlowAncestors(net, fl, p)) : flow_cap(net, fl, a, p)[1] > 0}

\* The positions that can be reached from those of S over residual edges
RECURSIVE ResidualReach(_, _, _)
ResidualReach(net, fl, S) ==
    LET T == S \cup UNION {ResidualSteps(net, fl, p) : p \in S}
    IN  IF T = S THEN S ELSE ResidualReach(net, fl, T)

\* The positions the parent pointers lead through from "to" back to where no
\* pointer is set, "to" first; at most n + 1 positions
RECURSIVE PathBack(_, _, _)
PathBack(path, to, n) ==
    IF path[to] = <<>> \/ n = 0 THEN <<to>>
    ELSE <<to>> \o PathBack(path, path[to][1], n - 1)

\* The sum of the flow counters of a source or sink list
RECURSIVE TotalFlow(_)
TotalFlow(pairs) ==
    IF pairs = <<>> THEN 0 ELSE Head(pairs)[2] + TotalFlow(Tail(pairs))

\* The step from "from" to "to" has been augmented by exactly 1 between the
\* network and Flow (net, fl) and (net2, fl2); the Source and Sink legs have
\* no cap of their own
AugmentedByOne(net, fl, net2, fl2, from, to) ==
    IF Contains(FlowDescendents(net, fl, from), to)
    THEN LET before == flow_cap(net, fl, from, to)
             after == flow_cap(net2, fl2, from, to)
         IN  /\ after[1] = before[1] + 1
             /\ after[2] = IF from = Source \/ to = Sink THEN before[2]
                           ELSE before[2] - 1
    ELSE LET before == flow_cap(net, fl, to, from)
             after == flow_cap(net2, fl2, to, from)
         IN  /\ after[1] = before[1] - 1
             /\ after[2] = IF to = Source \/ from = Sink THEN before[2]
                           ELSE before[2] + 1

\* C24: Flow::step returns true exactly when Sink can be reached from Source
\* over residual edges. When it returns false it has changed nothing. When it
\* returns true the parent pointers lead back from Sink to Source along a
\* simple path of residual edges, each step of that path has been augmented by
\* exactly 1, and the total of the source counters has grown by exactly 1.
C24_StepAugmentsOnePath ==
    [][pc = "flow" =>
        LET reached == Sink \in ResidualReach(network, frame.fl, {Source})
            path == StepSearch(network, frame.fl, {}, NewPath(network), <<Source>>).path
            back == PathBack(path, Sink, 2 * node_count(network) + 2)
        IN  IF pc' = "label_node"
            THEN ~reached /\ network' = network /\ frame' = frame
            ELSE /\ reached
                 /\ frame'.max_flow = frame.max_flow + 1
                 /\ back[Len(back)] = Source
                 /\ NoRepetition(back)
                 /\ \A i \in 1..(Len(back) - 1) :
                        /\ back[i] \in ResidualSteps(network, frame.fl, back[i + 1])
                        /\ AugmentedByOne(network, frame.fl, network', frame'.fl,
                                          back[i + 1], back[i])
                 /\ TotalFlow(frame'.fl.source) = TotalFlow(frame.fl.source) + 1]_vars

\* step has returned true twice, once over an edge of capacity 1000, and then
\* false: the source counters add up to the two units
C24_Witness ==
    /\ pc = "label_node"
    /\ frame.max_flow = 2
    /\ TotalFlow(frame.fl.source) = 2
    /\ <<1, InfiniteCapacity - 1>> \in EdgePayloads

\* let mut max_flow = 0; while flow.step() { max_flow += 1; }: the network and
\* label_node's locals when step returns false
RECURSIVE RunFlow(_, _)
RunFlow(net, fr) ==
    LET r == step(net, fr.fl)
    IN  IF r.found
        THEN RunFlow(r.net, [fr EXCEPT !.fl = r.fl, !.max_flow = @ + 1])
        ELSE [net |-> net, frame |-> fr]

\* A copy of the network with the flow of every node 0 and the payload of
\* every edge (0, 0)
Clean(net) ==
    [net EXCEPT
        !.node_values = [n \in DOMAIN @ |-> [@[n] EXCEPT !.flow = 0]],
        !.edge_values = [n \in DOMAIN @ |-> [i \in 1..Len(@[n]) |-> DefaultEdgeValue]]]

\* What label_node returns for the node of the running call on the clean copy
CleanResult ==
    LET sub == LabelSubnetwork(Clean(network), frame.node, frame.p)
        done == RunFlow(sub.net, sub.frame)
    IN  LabelResult(done.net, done.frame, k)

\* C25: the label and x_bar label_node computes for a node do not depend on
\* the flow and (flow, cap) values earlier label_node calls left in the
\* network: they equal what label_node computes on a copy of the network in
\* which every node flow is 0 and every edge payload is (0, 0).
C25_IndependentOfStaleValues ==
    pc = "label_node" => LabelResult(network, frame, k) = CleanResult

\* The emitted LUTs with output n
LutsOf(n) == {i \in 1..Len(Luts) : Luts[i].output = n}

\* The greatest number of LUTs on a path of the emitted LUT network that ends
\* in node n
RECURSIVE LutLevel(_)
LutLevel(n) ==
    IF LutsOf(n) = {} THEN 0
    ELSE 1 + MaxOf({0} \cup {LutLevel(u) : u \in UNION {Range(Luts[i].inputs) : i \in LutsOf(n)}})

\* C26: in every LUT map has emitted, the label of each input node is
\* strictly less than the label of the output node; hence, in the list map
\* returns, the number of LUTs on any path that ends in a LUT output is at
\* most the label of that output, and at a PO at most the maximum label of
\* the POs.
C26_InputLabelsBelowOutput ==
    /\ \A i \in 1..Len(Luts) :
           \A u \in Range(Luts[i].inputs) : LabelOf(u) < LabelOf(Luts[i].output)
    /\ pc = "mapped" =>
           \A i \in 1..Len(Luts) :
               /\ LutLevel(Luts[i].output) <= LabelOf(Luts[i].output)
               /\ IsPO(Luts[i].output) =>
                      LutLevel(Luts[i].output)
                          <= MaxOf({LabelOf(o) : o \in {m \in Nodes(network) : IsPO(m)}})

\* map has returned a LUT network in which a PO is reached through as many
\* LUTs as its label, two or more
C26_Witness ==
    /\ pc = "mapped"
    /\ \E i \in 1..Len(Luts) :
           /\ IsPO(Luts[i].output)
           /\ LutLevel(Luts[i].output) >= 2
           /\ LutLevel(Luts[i].output) = LabelOf(Luts[i].output)

\* The nodes that are the output of an emitted LUT
LutOutputs == {Luts[i].output : i \in 1..Len(Luts)}

\* C27: the worklist loop of map terminates (map returns, or its assertion
\* panics), and in the list map returns no two LUTs have the same output,
\* every PO that is not a PI is the output of a LUT, every LUT input is a node
\* flagged PI or the output of a LUT of the list, and no node that is PI and
\* not PO is a LUT output.
C27_MapTerminates ==
    /\ (pc = "map") ~> (pc \in {"mapped", "panic"})
    /\ [](pc = "mapped" =>
            /\ \A i, j \in 1..Len(Luts) : Luts[i].output = Luts[j].output => i = j
            /\ \A n \in Nodes(network) : IsPO(n) /\ ~IsPI(n) => n \in LutOutputs
            /\ \A i \in 1..Len(Luts) :
                   \A u \in Range(Luts[i].inputs) : IsPI(u) \/ u \in LutOutputs
            /\ \A n \in LutOutputs : ~(IsPI(n) /\ ~IsPO(n)))

\* map has returned LUTs for two POs, one of which has an input that is the
\* output of another LUT
C27_Witness ==
    /\ pc = "mapped"
    /\ Cardinality({n \in LutOutputs : IsPO(n)}) >= 2
    /\ \E i \in 1..Len(Luts) : \E u \in Range(Luts[i].inputs) : u \in LutOutputs

\* The sum of f over the set S
RECURSIVE SumOver(_, _)
SumOver(S, f) ==
    IF S = {} THEN 0
    ELSE LET x == CHOOSE y \in S : TRUE IN f[x] + SumOver(S \ {x}, f)

\* The edges of the network, parallel ones apart: <<to, i>> is the edge from
\* the i-th ancestor of "to"
Edges == {e \in Nodes(network) \X (1..2) : e[2] <= Len(network.ancestors[e[1]])}

\* The flow on the edges into v, and on the edges out of v
InFlow(v) ==
    SumOver({e \in Edges : e[1] = v},
            [e \in Edges |-> network.edge_values[e[1]][e[2]][1]])

OutFlow(v) ==
    SumOver({e \in Edges : network.ancestors[e[1]][e[2]] = v},
            [e \in Edges |-> network.edge_values[e[1]][e[2]][1]])

\* The source and the sink counter of v, 0 for a node that is not listed
SourceFlow(v) == IF Listed(frame.fl.source, v) THEN Counter(frame.fl.source, v) ELSE 0

SinkFlow(v) == IF Listed(frame.fl.sink, v) THEN Counter(frame.fl.sink, v) ELSE 0

\* The payloads label_node gave the edges before its first step
InitialEdgeValues ==
    LabelSubnetwork(Clean(network), frame.node, frame.p).net.edge_values

\* C28: during label_node, after every step that has returned true, flow is
\* conserved at every node v of the cone of the node being labelled (flow on
\* the edges into v plus v's source counter = v.flow = flow on the edges out
\* of v plus v's sink counter), and on every edge into a node of the
\* subnetwork flow + cap is the capacity label_node initialised it with.
C28_FlowConserved ==
    (pc \in {"flow", "label_node"} /\ frame.max_flow >= 1) =>
        /\ \A v \in Cone(frame.node) :
               /\ InFlow(v) + SourceFlow(v) = network.node_values[v].flow
               /\ network.node_values[v].flow = OutFlow(v) + SinkFlow(v)
        /\ \A e \in Edges :
               e[1] \in Cone(frame.node) \cup {frame.node} =>
                   LET payload == network.edge_values[e[1]][e[2]]
                   IN  /\ payload[1] + payload[2] = InitialEdgeValues[e[1]][e[2]][2]
                       /\ payload[1] + payload[2] \in {0, 1, InfiniteCapacity}

\* C29: the loop "while flow.step()" of label_node terminates: every call of
\* step either returns false or adds one to the count of successful steps,
\* the count never exceeds the number of source nodes, and with the count at
\* that number step returns false; the capacity flow_cap reports for the
\* Source legs stays 1000 throughout.
C29_FlowLoopTerminates ==
    [][pc = "flow" =>
        /\ frame.max_flow <= Len(frame.fl.source)
        /\ \A i \in 1..Len(frame.fl.source) :
               flow_cap(network, frame.fl, Source,
                        BeforeNode(frame.fl.source[i][1]))[2] = InfiniteCapacity
        /\ \/ pc' = "label_node" /\ frame' = frame
           \/ /\ pc' = "flow"
              /\ frame'.max_flow = frame.max_flow + 1
              /\ Len(frame'.fl.source) = Len(frame.fl.source)
        /\ frame.max_flow = Len(frame.fl.source) => pc' = "label_node"]_vars

\* The loop has ended after two successful steps or more with a source node
\* left that passes no flow
C29_Witness ==
    /\ pc = "label_node"
    /\ frame.max_flow >= 2
    /\ frame.max_flow < Len(frame.fl.source)

\* label_network is running
LabelNetworkRunning == pc \in {"label_network", "flow", "label_node"}

\* C30: label_network never changes the label or x_bar of a node flagged PI,
\* never changes is_pi, is_po or symbol of any node, and never changes the
\* ancestor and descendent lists or the number of nodes and edges; what it
\* writes is the label and x_bar of non-PI nodes, the flow of nodes and the
\* payloads of edges.
C30_LabelNetworkFrame ==
    [][LabelNetworkRunning =>
        /\ network'.max_node_index = network.max_node_index
        /\ network'.ancestors = network.ancestors
        /\ network'.descendents = network.descendents
        /\ DOMAIN network'.node_values = DOMAIN network.node_values
        /\ DOMAIN network'.edge_values = DOMAIN network.edge_values
        /\ \A n \in Nodes(network) :
               LET before == network.node_values[n]
                   after == network'.node_values[n]
               IN  /\ after.is_pi = before.is_pi
                   /\ after.is_po = before.is_po
                   /\ after.symbol = before.symbol
                   /\ before.is_pi =>
                          after.label = before.label /\ after.x_bar = before.x_bar
                   /\ Len(network'.edge_values[n]) = Len(network.edge_values[n])]_vars

\* label_network has returned having written the label and x_bar of a node
\* that is no PI, flow into a PI and a payload into an edge
C30_Witness ==
    /\ pc = "labelled"
    /\ \E n \in NonPI : LabelOf(n) >= 2 /\ Len(network.node_values[n].x_bar) >= 2
    /\ \E n \in Nodes(network) : IsPI(n) /\ network.node_values[n].flow = 1
    /\ \E e \in EdgePayloads : e[1] = 1

====
